---- MODULE Spec2Model ----
(***************************************************************************)
(* GraphVisualization (components/GraphVisualization.tsx): the selection / *)
(* detail-panel controller, the viewport state and the d3 force            *)
(* configuration that the component's effects apply to the ForceGraph2D    *)
(* instance; its canvas callbacks (renderNode, renderLink); and, around    *)
(* it, App.handleRunQuery (App.tsx) with the Neo4j result processing and   *)
(* the ToolsPanel tabs and sample buttons that start queries.              *)
(*                                                                         *)
(* Strings that the code inspects (node ids, link types) are sequences of  *)
(* one-character strings.  Fractions are kept exact by scaling:            *)
(*   - a radius is stored times 50  (nodeRadius = max(width/50, 10));      *)
(*   - a collision radius is stored times 500 (nodeRadius * 1.5 / * 1.8);  *)
(*   - a force strength is stored times 100 (0.5 -> 50, 0.05 -> 5).        *)
(***************************************************************************)
EXTENDS Integers, Sequences, FiniteSets, TLC

\* ---------------------------------------------------------------- bounds
MaxWidthIdx == 4
MaxHeightIdx == 2
MaxStrLen == 6
MaxInFlight == 2

\* container widths and heights that getBoundingClientRect may report
Widths == {275 * k : k \in 0..MaxWidthIdx}
Heights == {500} \cup {200 * k : k \in 1..MaxHeightIdx}

\* ---------------------------------------------------------------- values
\* "no node" / "no force object": the value of an empty useState or useRef
null == [isNull |-> TRUE]

Range(s) == {s[i] : i \in 1..Len(s)}

\* node ids
id_n1 == <<"n", "1">>
id_n2 == <<"n", "2">>
id_n3 == <<"n", "3">>
id_schemaVul == <<"s", "c", "h", "e", "m", "a", "_", "V", "u", "l">>
id_schemaPro == <<"s", "c", "h", "e", "m", "a", "_", "P", "r", "o">>
id_schemaVen == <<"s", "c", "h", "e", "m", "a", "_", "V", "e", "n">>
\* a regular id that only shares a proper prefix with the schema marker
id_schema == <<"s", "c", "h", "e", "m", "a">>

\* relationship labels
type_EXPLOITS == <<"E", "X", "P", "L", "O", "I", "T", "S">>
type_REFERS_TO == <<"R", "E", "F", "E", "R", "S", "_", "T", "O">>
type_BELONGS_TO == <<"B", "E", "L", "O", "N", "G", "S", "_", "T", "O">>

\* node labels
label_Vulnerability == <<"V", "u", "l", "n", "e", "r", "a", "b", "i", "l", "i", "t", "y">>
label_Exploit == <<"E", "x", "p", "l", "o", "i", "t">>
label_Weakness == <<"W", "e", "a", "k", "n", "e", "s", "s">>
label_Product == <<"P", "r", "o", "d", "u", "c", "t">>
label_Vendor == <<"V", "e", "n", "d", "o", "r">>
label_Author == <<"A", "u", "t", "h", "o", "r">>
label_Domain == <<"D", "o", "m", "a", "i", "n">>
label_TestNode == <<"T", "e", "s", "t", "N", "o", "d", "e">>

\* NodeData {id, label, properties}
Node(id, label, properties) == [id |-> id, label |-> label, properties |-> properties]

node_n1 == Node(id_n1, label_Vulnerability, [cveID |-> <<"C", "V", "E", "-", "2", "0", "2", "1", "-", "1">>])
node_n1b == Node(id_n1, label_Product, [productName |-> <<"P", "1">>])
node_n2 == Node(id_n2, label_Exploit, [eid |-> <<"E", "1">>])
node_n3 == Node(id_n3, label_Domain, [domainName |-> <<"D", "1">>])
node_sVul == Node(id_schemaVul, label_Vulnerability, [schemaNodeType |-> <<"l", "a", "b", "e", "l">>])
node_sPro == Node(id_schemaPro, label_Product, [schemaNodeType |-> <<"l", "a", "b", "e", "l">>])
node_sVen == Node(id_schemaVen, label_Vendor, [schemaNodeType |-> <<"l", "a", "b", "e", "l">>])
node_schema == Node(id_schema, label_Weakness, [cweID |-> <<"C", "W", "E", "-", "1">>])

\* LinkData {source, target, type?}: the type field may be absent
Link(source, target, type) == [source |-> source, target |-> target, type |-> type]
LinkNoType(source, target) == [source |-> source, target |-> target]

\* GraphData {nodes, links}
GraphData(nodes, links) == [nodes |-> nodes, links |-> links]

data_empty == GraphData(<<>>, <<>>)
data_scenario == GraphData(<<node_n1, node_n2>>, <<Link(id_n1, id_n2, type_EXPLOITS)>>)
data_mixed == GraphData(<<node_sVul, node_n1, node_schema>>, <<>>)
data_schema == GraphData(<<node_sPro, node_sVen>>, <<Link(id_schemaPro, id_schemaVen, type_BELONGS_TO)>>)
data_other == GraphData(<<node_n1b, node_n3>>,
                        <<Link(id_n1, id_n3, type_REFERS_TO), LinkNoType(id_n3, id_n1),
                          Link(id_n3, id_n3, <<>>)>>)

DataSets == {data_empty, data_scenario, data_mixed, data_schema, data_other}

\* the JavaScript value undefined, kept apart from every string
undefined == <<"<undefined>">>

\* values of a neo4j record: a node {identity, labels, properties} or a
\* relationship {start, end, type}; identities are neo4j Integers
nodeValue(identity, labels, properties) ==
    [identity |-> identity, labels |-> labels, properties |-> properties]
relValue(start, end, type) == [start |-> start, end |-> end, type |-> type]

value_a == nodeValue(1, <<label_Vulnerability>>, [cveID |-> <<"C", "V", "E", "-", "1">>])
value_b == nodeValue(2, <<label_Exploit, label_Author>>, [eid |-> <<"E", "2">>])
value_unlabelled == nodeValue(3, <<>>, [name |-> <<"x">>])
value_r == relValue(2, 1, type_EXPLOITS)
value_loop == relValue(1, 1, type_REFERS_TO)

\* results of session.run: sequences of records, each a sequence of values
\*   MATCH (a)<-[r]-(b) RETURN a, r, b   /   RETURN a, r   /   RETURN r
\*   a node returned by two records   /   a node without labels
result_none == <<>>
result_path == << <<value_a, value_r, value_b>> >>
result_noSource == << <<value_a, value_r>>, <<value_a, value_loop>> >>
result_relOnly == << <<value_r>> >>
result_repeated == << <<value_a>>, <<value_b>>, <<value_a>> >>
result_unlabelled == << <<value_a, value_unlabelled>> >>

QueryResults == {result_none, result_path, result_noSource, result_relOnly,
                 result_repeated, result_unlabelled}

\* display strings: every string over a wide and a narrow letter, up to MaxStrLen
Strings == UNION {[1..k -> {"W", "i"}] : k \in 0..MaxStrLen}

\* nodes that the renderer is handed besides those of DataSets
node_text(s) == Node(id_n1, label_Product, [productName |-> s])
node_testNode == Node(<<"t", "1">>, label_TestNode, [name |-> <<"T", "e", "s", "t">>])
node_noCve == Node(id_n2, label_Vulnerability, [name |-> <<"T", "e", "s", "t">>])

RenderData == DataSets
              \cup {GraphData(<<node_text(s)>>, <<>>) : s \in Strings}
              \cup {GraphData(<<node_testNode, node_noCve>>, <<LinkNoType(id_n2, <<"t", "1">>)>>)}

\* text measures of the canvas context: glyph advances in tenths of the font
\* size (a narrow and a wide class), and the test suite's mock, for which every
\* text measures 50
glyphMeasure(narrow, wide) == [kind |-> "glyph", narrow |-> narrow, wide |-> wide]
constantMeasure == [kind |-> "constant", width |-> 50]

Measures == {glyphMeasure(3, 10), glyphMeasure(3, 6), constantMeasure}

\* ---------------------------------------------------------------- state
VARIABLES
    mounted,          \* the component is mounted (graphRef.current is set)
    data,             \* the data prop
    containerWidth,   \* useState containerWidth
    containerHeight,  \* useState containerHeight
    selectedNode,     \* useState selectedNode: a NodeData or null
    nodeRelSize,      \* the nodeRelSize prop of the last render, times 50
    forces,           \* the parameters of the d3 forces of the ForceGraph2D instance
    notified,         \* the node last handed to onNodeClick (App's selectedNode)
    emitted,          \* the onNodeClick calls made by the last event, in order
    event,            \* the last event handled
    hasResizeObserver, \* the environment defines ResizeObserver
    listeners,        \* what the size effect has registered: window listener, observer
    crashed,          \* an effect threw while mounting; React removed the tree
    warning,          \* App's warning state
    ctx,              \* the canvas context's text measure
    rpc,              \* where the render callback in progress stands
    rNode,            \* the node handed to renderNode
    nodeId,           \* renderNode's nodeId: the display text before fitting
    truncated,        \* renderNode's truncated
    displayText,      \* renderNode's displayText; at "done", the text drawn
    pass,             \* 1: fitting a node's text, 2: fitting the text that pass 1 drew
    firstText,        \* the text drawn by pass 1
    drawnLabel,       \* the label drawn by renderLinkLabel
    selectedQuery,    \* App's useState selectedQuery: the query handed to the editor
    inflight,         \* the handleRunQuery calls that await their service, in start order
    appEvent,         \* the last event that App handled
    latest,           \* the result of the latest-started visualization query that succeeded
    activeTab,        \* ToolsPanel's useState activeTab
    isCollapsed,      \* ToolsPanel's useState isCollapsed
    lastClicked       \* the tab button clicked last

renderVars == <<ctx, rpc, rNode, nodeId, truncated, displayText, pass, firstText, drawnLabel>>

appVars == <<selectedQuery, inflight, appEvent, latest>>

toolVars == <<activeTab, isCollapsed, lastClicked>>

vars == <<mounted, data, containerWidth, containerHeight, selectedNode,
          nodeRelSize, forces, notified, emitted, event,
          hasResizeObserver, listeners, crashed, warning, renderVars, appVars, toolVars>>

\* ---------------------------------------------------------------- helpers
Max(a, b) == IF a >= b THEN a ELSE b
Min(a, b) == IF a <= b THEN a ELSE b

\* String.prototype.startsWith
startsWith(s, prefix) ==
    /\ Len(s) >= Len(prefix)
    /\ SubSeq(s, 1, Len(prefix)) = prefix

schemaMarker == <<"s", "c", "h", "e", "m", "a", "_">>

\* nodeRadius, times 50: Math.max(containerWidth / 50, 10), clamped again at 10
nodeRadius_minInsteadOfMax(width) ==
    LET baseRadius == Min(width, 10 * 50)
    IN  IF baseRadius < 10 * 50 THEN 10 * 50 ELSE baseRadius

nodeRadius(width) ==
    LET baseRadius == Max(width, 10 * 50)
    IN  IF baseRadius < 10 * 50 THEN 10 * 50 ELSE baseRadius

\* d3.forceCollide with the given radius (times 500); the strength of a new
\* collision force is d3's default, 1
forceCollide(radius) == [radius |-> radius, strength |-> 100]

\* link.type || ''
linkLabel(link) == IF "type" \in DOMAIN link THEN link.type ELSE <<>>

\* the distance accessor installed by the force configuration effect
labelDistance(link) ==
    LET label == linkLabel(link)
        estimatedTextWidth == Len(label) * 6
    IN  Max(estimatedTextWidth * 2, 60)

\* the distance the link force in effect gives a link
linkDistance(f, link) ==
    IF f.linkDistance.kind = "byLabel" THEN labelDistance(link) ELSE f.linkDistance.value

\* the force objects before any effect has configured them
unconfigured == [linkDistance |-> null, linkStrength |-> null, chargeStrength |-> null,
                 chargeDistanceMax |-> null, centerStrength |-> null, collide |-> null]

\* useEffect [nodeRadius]: collision force with extra padding
collisionEffect(f, r) == [f EXCEPT !.collide = forceCollide(r * 15)]

\* useEffect [nodeRadius, data]: force configuration
forceConfigurationEffect(f, r) ==
    [f EXCEPT !.linkDistance = [kind |-> "byLabel"],
              !.linkStrength = 50,
              !.chargeStrength = -500,
              !.chargeDistanceMax = 300,
              !.centerStrength = 5,
              !.collide = [forceCollide(r * 18) EXCEPT !.strength = 50]]

\* useEffect [containerWidth, containerHeight, nodeRadius]: update on resize
resizeEffect(f, r) ==
    [f EXCEPT !.centerStrength = 5,
              !.chargeStrength = -500,
              !.linkDistance = [kind |-> "const", value |-> 100],
              !.collide = forceCollide(r * 15)]

\* the effects of one commit, in declaration order, each run when one of its
\* dependencies changed (all of them on the first commit)
runEffects(f, first, oldWidth, oldHeight, newWidth, newHeight, dataChanged) ==
    LET r == nodeRadius(newWidth)
        radiusChanged == first \/ r # nodeRadius(oldWidth)
        sizeChanged == first \/ newWidth # oldWidth \/ newHeight # oldHeight
        f1 == IF radiusChanged THEN collisionEffect(f, r) ELSE f
        f2 == IF radiusChanged \/ dataChanged THEN forceConfigurationEffect(f1, r) ELSE f1
        f3 == IF sizeChanged \/ radiusChanged THEN resizeEffect(f2, r) ELSE f2
    IN  f3

\* handleNodeClick: the selection and the onNodeClick calls after a click
handleNodeClick_noSchemaCheck(selected, node) ==
    IF selected # null /\ selected.id = node.id
    THEN [selected |-> null, calls |-> <<>>]
    ELSE [selected |-> node, calls |-> <<node>>]

handleNodeClick_noToggle(selected, node) ==
    IF startsWith(node.id, schemaMarker)
    THEN [selected |-> selected, calls |-> <<>>]
    ELSE [selected |-> node, calls |-> <<node>>]

handleNodeClick_keepsOld(selected, node) ==
    IF startsWith(node.id, schemaMarker)
    THEN [selected |-> selected, calls |-> <<>>]
    ELSE IF selected # null /\ selected.id = node.id
         THEN [selected |-> null, calls |-> <<>>]
         ELSE IF selected # null
              THEN [selected |-> selected, calls |-> <<node>>]
              ELSE [selected |-> node, calls |-> <<node>>]

handleNodeClick(selected, node) ==
    IF startsWith(node.id, schemaMarker)
    THEN [selected |-> selected, calls |-> <<>>]
    ELSE IF selected # null /\ selected.id = node.id
         THEN [selected |-> null, calls |-> <<>>]
         ELSE [selected |-> node, calls |-> <<node>>]

\* the close button's onClick: setSelectedNode(null)
closeButton_keeps(selected) == selected

closeButton(selected) == null

\* Integer.toString of a neo4j identity
RECURSIVE toString(_)
toString(i) ==
    LET digit == <<"0", "1", "2", "3", "4", "5", "6", "7", "8", "9">>[(i % 10) + 1]
    IN  IF i < 10 THEN <<digit>> ELSE toString(i \div 10) \o <<digit>>

\* Neo4jService.processNode: the first value with an identity stays in the map
processNode_noHasCheck(value, nodesMap) ==
    Append(nodesMap, Node(toString(value.identity),
                          IF Len(value.labels) > 0 THEN value.labels[1] ELSE undefined,
                          value.properties))

processNode(value, nodesMap) ==
    LET key == toString(value.identity)
    IN  IF \E i \in 1..Len(nodesMap) : nodesMap[i].id = key
        THEN nodesMap
        ELSE Append(nodesMap, Node(key,
                                   IF Len(value.labels) > 0 THEN value.labels[1] ELSE undefined,
                                   value.properties))

\* Neo4jService.processRelationship
processRelationship(value, links) ==
    Append(links, Link(toString(value.start), toString(value.end), value.type))

\* the body of record.forEach in executeQuery
processValue(value, acc) ==
    LET withNode == IF "identity" \in DOMAIN value /\ "labels" \in DOMAIN value
                    THEN processNode(value, acc.nodes) ELSE acc.nodes
        withLink == IF "start" \in DOMAIN value /\ "end" \in DOMAIN value
                    THEN processRelationship(value, acc.links) ELSE acc.links
    IN  GraphData(withNode, withLink)

RECURSIVE processRecord(_, _)
processRecord(record, acc) ==
    IF record = <<>> THEN acc
    ELSE processRecord(Tail(record), processValue(Head(record), acc))

RECURSIVE processRecords(_, _)
processRecords(records, acc) ==
    IF records = <<>> THEN acc
    ELSE processRecords(Tail(records), processRecord(Head(records), acc))

\* Neo4jService.executeQuery, given the records that session.run returns
executeQuery(records) == processRecords(records, GraphData(<<>>, <<>>))

\* truthiness of a string-or-undefined value
truthy(v) == v # undefined /\ v # <<>>

\* App.isValidGraphData (data is an object with two arrays here)
isValidGraphData(d) ==
    /\ \A i \in 1..Len(d.nodes) : truthy(d.nodes[i].id) /\ truthy(d.nodes[i].label)
    /\ \A i \in 1..Len(d.links) : truthy(d.links[i].source) /\ truthy(d.links[i].target)

\* the cleanup of the size effect: removeEventListener and disconnect
sizeEffectCleanup_keepsListener(l) == [l EXCEPT !.observer = FALSE]

sizeEffectCleanup(l) == [l EXCEPT !.window = FALSE, !.observer = FALSE]

noListeners == [window |-> FALSE, observer |-> FALSE]

\* ------------------------------------------------------------ the renderer
ellipsis == <<".", ".", ".">>

\* String(v): the text that the canvas and string concatenation make of a value
String(v) == IF v = undefined THEN <<"u", "n", "d", "e", "f", "i", "n", "e", "d">> ELSE v

\* getNodeId of GraphVisualization
property(node, name) ==
    IF name \in DOMAIN node.properties THEN node.properties[name] ELSE undefined

getNodeId_noSchemaCase(node) ==
    CASE node.label = label_Vulnerability -> property(node, "cveID")
      [] node.label = label_Exploit -> property(node, "eid")
      [] node.label = label_Weakness -> property(node, "cweID")
      [] node.label = label_Product -> property(node, "productName")
      [] node.label = label_Vendor -> property(node, "vendorName")
      [] node.label = label_Author -> property(node, "authorName")
      [] node.label = label_Domain -> property(node, "domainName")
      [] OTHER -> <<"U", "n", "k", "n", "o", "w", "n">>

getNodeId(node) ==
    IF startsWith(node.id, schemaMarker)
    THEN node.label
    ELSE CASE node.label = label_Vulnerability -> property(node, "cveID")
           [] node.label = label_Exploit -> property(node, "eid")
           [] node.label = label_Weakness -> property(node, "cweID")
           [] node.label = label_Product -> property(node, "productName")
           [] node.label = label_Vendor -> property(node, "vendorName")
           [] node.label = label_Author -> property(node, "authorName")
           [] node.label = label_Domain -> property(node, "domainName")
           [] OTHER -> <<"U", "n", "k", "n", "o", "w", "n">>

\* the sum of the glyph advances of a text, in tenths of the font size
RECURSIVE advance(_, _)
advance(m, text) ==
    IF text = <<>> THEN 0
    ELSE (IF Head(text) \in {".", "i", "l", "1", "-", "_"} THEN m.narrow ELSE m.wide)
         + advance(m, Tail(text))

\* ctx.measureText(v).width, times 1500, at the font of a regular node,
\* Math.min(nodeRadius / 3, 8) px; r is the radius times 50
measureText(m, v, r) ==
    IF m.kind = "constant" THEN m.width * 1500
    ELSE advance(m, String(v)) * Min(r, 8 * 150)

\* maxTextWidth = nodeRadius * 1.6, times 1500
maxTextWidth(r) == 48 * r

\* truncated.slice(0, -1)
slice(text) == SubSeq(text, 1, Len(text) - 1)

\* the while condition: "iterate", "exit", or "throws" when .length is read
\* of undefined
loopCondition_noEllipsis(m, text, r) ==
    IF measureText(m, text, r) > maxTextWidth(r)
    THEN IF text = undefined THEN "throws"
         ELSE IF Len(text) > 0 THEN "iterate" ELSE "exit"
    ELSE "exit"

loopCondition_noLengthCheck(m, text, r) ==
    IF measureText(m, String(text) \o ellipsis, r) > maxTextWidth(r)
    THEN IF text = undefined THEN "throws" ELSE "iterate"
    ELSE "exit"

loopCondition(m, text, r) ==
    IF measureText(m, String(text) \o ellipsis, r) > maxTextWidth(r)
    THEN IF text = undefined THEN "throws"
         ELSE IF Len(text) > 0 THEN "iterate" ELSE "exit"
    ELSE "exit"

\* the text fit up to the loop: displayText = nodeId, and truncated = nodeId
\* when the text is wider than maxTextWidth
fitStart_alwaysTruncates(m, text, r) ==
    [rpc |-> "loop", truncated |-> text, displayText |-> text]

fitStart(m, text, r) ==
    IF measureText(m, text, r) > maxTextWidth(r)
    THEN [rpc |-> "loop", truncated |-> text, displayText |-> text]
    ELSE [rpc |-> "done", truncated |-> <<>>, displayText |-> text]

\* the node and the link as renderNode and renderLinkLabel leave them: neither
\* assigns to a field of its argument
renderNodeWrites_setsText(node, text) == [node EXCEPT !.label = String(text)]

renderNodeWrites(node, text) == node

renderLinkWrites(link) == link

\* no render callback in progress
renderIdle ==
    /\ rpc = "idle"
    /\ rNode = null
    /\ nodeId = <<>>
    /\ truncated = <<>>
    /\ displayText = <<>>
    /\ pass = 0
    /\ firstText = <<>>
    /\ drawnLabel = <<>>

\* setWarning(null): the warning state holds no message
noWarning == ""

\* App before any query was selected or run (App.tsx useState initial values)
appIdle ==
    /\ selectedQuery = undefined
    /\ inflight = <<>>
    /\ appEvent = [kind |-> "none"]
    /\ latest = null

\* ToolsPanel as first rendered
toolsIdle ==
    /\ activeTab = "samples"
    /\ isCollapsed = FALSE
    /\ lastClicked = "<none>"

\* ---------------------------------------------------------------- actions
Init ==
    /\ mounted = FALSE
    /\ data \in DataSets
    /\ containerWidth = 0
    /\ containerHeight = 500
    /\ selectedNode = null
    /\ nodeRelSize = nodeRadius(0)
    /\ forces = null
    /\ notified = null
    /\ emitted = <<>>
    /\ event = [kind |-> "none"]
    /\ hasResizeObserver \in BOOLEAN
    /\ listeners = noListeners
    /\ crashed = FALSE
    /\ warning = ""
    /\ ctx = constantMeasure
    /\ renderIdle
    /\ appIdle
    /\ toolsIdle

\* First render with width 0 and height 500, its effects, then the re-render
\* that the size measured by updateSize() causes, and its effects.
Mount(width, height) ==
    /\ ~mounted
    /\ ~crashed
    /\ hasResizeObserver
    /\ mounted' = TRUE
    /\ listeners' = [window |-> TRUE, observer |-> TRUE]
    /\ containerWidth' = width
    /\ containerHeight' = height
    /\ nodeRelSize' = nodeRadius(width)
    /\ forces' = LET first == runEffects(unconfigured, TRUE, 0, 500, 0, 500, TRUE)
                 IN  runEffects(first, FALSE, 0, 500, width, height, FALSE)
    /\ emitted' = <<>>
    /\ event' = [kind |-> "mount"]
    /\ UNCHANGED <<renderVars, appVars, toolVars>>
    /\ UNCHANGED <<data, selectedNode, notified, hasResizeObserver, crashed, warning>>

\* Mounting where ResizeObserver is not defined: the size effect registers the
\* window listener, then `new ResizeObserver` throws a ReferenceError before the
\* effect returns its cleanup; React removes the tree and the component's state.
MountCrash ==
    /\ ~mounted
    /\ ~crashed
    /\ ~hasResizeObserver
    /\ crashed' = TRUE
    /\ listeners' = [window |-> TRUE, observer |-> FALSE]
    /\ emitted' = <<>>
    /\ event' = [kind |-> "crash"]
    /\ UNCHANGED <<renderVars, appVars, toolVars>>
    /\ UNCHANGED <<mounted, data, containerWidth, containerHeight, selectedNode,
                   nodeRelSize, forces, notified, hasResizeObserver, warning>>

\* React unmounts the component: the effect cleanups run, the instance and
\* its state are discarded
Unmount ==
    /\ mounted
    /\ mounted' = FALSE
    /\ listeners' = sizeEffectCleanup(listeners)
    /\ containerWidth' = 0
    /\ containerHeight' = 500
    /\ selectedNode' = null
    /\ nodeRelSize' = nodeRadius(0)
    /\ forces' = null
    /\ emitted' = <<>>
    /\ event' = [kind |-> "unmount"]
    /\ UNCHANGED <<renderVars, appVars, toolVars>>
    /\ UNCHANGED <<data, notified, hasResizeObserver, crashed, warning>>

\* updateSize, from the window resize listener or the ResizeObserver
Resize(source, width, height) ==
    /\ listeners[source]
    /\ mounted
    /\ containerWidth' = width
    /\ containerHeight' = height
    /\ nodeRelSize' = nodeRadius(width)
    /\ forces' = runEffects(forces, FALSE, containerWidth, containerHeight, width, height, FALSE)
    /\ emitted' = <<>>
    /\ event' = [kind |-> "resize"]
    /\ UNCHANGED <<renderVars, appVars, toolVars>>
    /\ UNCHANGED <<mounted, data, selectedNode, notified,
                   hasResizeObserver, listeners, crashed, warning>>

\* updateSize called by a listener that outlived the component:
\* containerRef.current is null and nothing is set
StaleResize(source) ==
    /\ listeners[source]
    /\ ~mounted
    /\ emitted' = <<>>
    /\ event' = [kind |-> "staleResize"]
    /\ UNCHANGED <<renderVars, appVars, toolVars>>
    /\ UNCHANGED <<mounted, data, containerWidth, containerHeight, selectedNode, nodeRelSize,
                   forces, notified, hasResizeObserver, listeners, crashed, warning>>

\* the parent renders the component with a new GraphData object
SetData(d) ==
    /\ mounted
    /\ data' = d
    /\ forces' = runEffects(forces, FALSE, containerWidth, containerHeight,
                            containerWidth, containerHeight, TRUE)
    /\ emitted' = <<>>
    /\ event' = [kind |-> "data"]
    /\ UNCHANGED <<renderVars, appVars, toolVars>>
    /\ UNCHANGED <<mounted, containerWidth, containerHeight, selectedNode, nodeRelSize, notified,
                   hasResizeObserver, listeners, crashed, warning>>

\* handleRunQuery, purpose 'visualization', once session.run has returned:
\* executeQuery builds the GraphData, isValidGraphData screens it, and
\* setGraphData hands it to GraphVisualization
VisualizationResult(records) ==
    /\ mounted
    /\ LET visualData == executeQuery(records)
       IN  IF ~isValidGraphData(visualData)
           THEN /\ warning' = "Query did not return valid graph data and was ignored."
                /\ event' = [kind |-> "ignored"]
                /\ UNCHANGED <<data, forces>>
           ELSE /\ data' = visualData
                /\ forces' = runEffects(forces, FALSE, containerWidth, containerHeight,
                                        containerWidth, containerHeight, TRUE)
                /\ event' = [kind |-> "data"]
                /\ UNCHANGED warning
    /\ emitted' = <<>>
    /\ UNCHANGED <<renderVars, appVars, toolVars>>
    /\ UNCHANGED <<mounted, containerWidth, containerHeight, selectedNode, nodeRelSize, notified,
                   hasResizeObserver, listeners, crashed>>

\* ForceGraph2D reports a click on one of the nodes it displays
ClickNode(node) ==
    /\ mounted
    /\ node \in Range(data.nodes)
    /\ LET after == handleNodeClick(selectedNode, node)
       IN  /\ selectedNode' = after.selected
           /\ emitted' = after.calls
           /\ notified' = IF after.calls = <<>> THEN notified ELSE after.calls[Len(after.calls)]
    /\ event' = [kind |-> "click", node |-> node, before |-> selectedNode]
    /\ UNCHANGED <<renderVars, appVars, toolVars>>
    /\ UNCHANGED <<mounted, data, containerWidth, containerHeight, nodeRelSize, forces,
                   hasResizeObserver, listeners, crashed, warning>>

\* the close button of the detail panel, rendered only while a node is selected
Dismiss ==
    /\ mounted
    /\ selectedNode # null
    /\ selectedNode' = closeButton(selectedNode)
    /\ emitted' = <<>>
    /\ event' = [kind |-> "dismiss", before |-> selectedNode]
    /\ UNCHANGED <<renderVars, appVars, toolVars>>
    /\ UNCHANGED <<mounted, data, containerWidth, containerHeight, nodeRelSize, forces, notified,
                   hasResizeObserver, listeners, crashed, warning>>

Next ==
    \/ \E w \in Widths, h \in Heights : Mount(w, h)
    \/ MountCrash
    \/ Unmount
    \/ \E source \in {"window", "observer"}, w \in Widths, h \in Heights : Resize(source, w, h)
    \/ \E source \in {"window", "observer"} : StaleResize(source)
    \/ \E d \in DataSets : SetData(d)
    \/ \E records \in QueryResults : VisualizationResult(records)
    \/ \E n \in Range(data.nodes) : ClickNode(n)
    \/ Dismiss

Spec == Init /\ [][Next]_vars

\* ------------------------------------------------- the render callbacks
mainVars == <<mounted, containerWidth, containerHeight, selectedNode, nodeRelSize, forces,
              notified, emitted, event, hasResizeObserver, listeners, crashed, warning,
              appVars, toolVars>>

\* a mounted component about to draw a frame of its data
RenderInit ==
    /\ mounted = TRUE
    /\ data \in RenderData
    /\ containerWidth \in Widths
    /\ containerHeight = 500
    /\ selectedNode = null
    /\ nodeRelSize = nodeRadius(containerWidth)
    /\ forces = LET first == runEffects(unconfigured, TRUE, 0, 500, 0, 500, TRUE)
                IN  runEffects(first, FALSE, 0, 500, containerWidth, 500, FALSE)
    /\ notified = null
    /\ emitted = <<>>
    /\ event = [kind |-> "mount"]
    /\ hasResizeObserver = TRUE
    /\ listeners = [window |-> TRUE, observer |-> TRUE]
    /\ crashed = FALSE
    /\ warning = ""
    /\ ctx \in Measures
    /\ renderIdle
    /\ appIdle
    /\ toolsIdle

\* renderNode(node, ctx): up to the drawing of a schema node or of a text that
\* fits, or up to the first test of the truncation loop
RenderNode(i) ==
    /\ rpc = "idle"
    /\ i \in 1..Len(data.nodes)
    /\ LET node == data.nodes[i]
           text == getNodeId(node)
           fit == fitStart(ctx, text, nodeRelSize)
       IN  /\ rNode' = node
           /\ nodeId' = text
           /\ IF startsWith(node.id, schemaMarker)
              THEN /\ rpc' = "done"
                   /\ displayText' = text
                   /\ truncated' = <<>>
              ELSE /\ rpc' = fit.rpc
                   /\ displayText' = fit.displayText
                   /\ truncated' = fit.truncated
           /\ data' = [data EXCEPT !.nodes[i] = renderNodeWrites(node, text)]
    /\ pass' = 1
    /\ UNCHANGED <<ctx, firstText, drawnLabel>>
    /\ UNCHANGED mainVars

\* one iteration of the truncation loop
LoopIterate ==
    /\ rpc = "loop"
    /\ loopCondition(ctx, truncated, nodeRelSize) = "iterate"
    /\ truncated' = slice(truncated)
    /\ UNCHANGED <<ctx, rpc, rNode, nodeId, displayText, pass, firstText, drawnLabel>>
    /\ UNCHANGED <<data, mainVars>>

\* the loop ends: displayText = truncated + '...' is drawn
LoopExit ==
    /\ rpc = "loop"
    /\ loopCondition(ctx, truncated, nodeRelSize) = "exit"
    /\ displayText' = String(truncated) \o ellipsis
    /\ rpc' = "done"
    /\ UNCHANGED <<ctx, rNode, nodeId, truncated, pass, firstText, drawnLabel>>
    /\ UNCHANGED <<data, mainVars>>

\* the loop test reads truncated.length of undefined: a TypeError leaves renderNode
LoopThrow ==
    /\ rpc = "loop"
    /\ loopCondition(ctx, truncated, nodeRelSize) = "throws"
    /\ rpc' = "thrown"
    /\ UNCHANGED <<ctx, rNode, nodeId, truncated, displayText, pass, firstText, drawnLabel>>
    /\ UNCHANGED <<data, mainVars>>

\* the text fit applied to the text that it has drawn for a regular node
RenderAgain ==
    /\ rpc = "done"
    /\ pass = 1
    /\ ~startsWith(rNode.id, schemaMarker)
    /\ LET fit == fitStart(ctx, displayText, nodeRelSize)
       IN  /\ rpc' = fit.rpc
           /\ displayText' = fit.displayText
           /\ truncated' = fit.truncated
    /\ nodeId' = displayText
    /\ firstText' = displayText
    /\ pass' = 2
    /\ UNCHANGED <<ctx, rNode, drawnLabel>>
    /\ UNCHANGED <<data, mainVars>>

\* renderLinkLabel(link, ctx): returns early without source or target, else
\* draws link.type || '' and the arrowhead
RenderLink(i) ==
    /\ rpc = "idle"
    /\ i \in 1..Len(data.links)
    /\ LET link == data.links[i]
       IN  /\ drawnLabel' = IF truthy(link.source) /\ truthy(link.target)
                            THEN linkLabel(link) ELSE <<>>
           /\ data' = [data EXCEPT !.links[i] = renderLinkWrites(link)]
    /\ rpc' = "linkDone"
    /\ UNCHANGED <<ctx, rNode, nodeId, truncated, displayText, pass, firstText>>
    /\ UNCHANGED mainVars

RenderNext ==
    \/ \E i \in 1..Len(data.nodes) : RenderNode(i)
    \/ LoopIterate
    \/ LoopExit
    \/ LoopThrow
    \/ RenderAgain
    \/ \E i \in 1..Len(data.links) : RenderLink(i)

SpecRender == RenderInit /\ [][RenderNext]_vars

\* the callbacks run to completion once ForceGraph2D has called them
FairSpecRender == SpecRender /\ WF_vars(RenderNext)

\* ------------------------------------------------- App: handleRunQuery
\* query texts, as sequences of characters
\* sampleQueries.schema
query_schema ==
    <<"C", "A", "L", "L", " ", "d", "b", ".", "s", "c", "h", "e", "m", "a", ".", "v", "i", "s",
      "u", "a", "l", "i", "z", "a", "t", "i", "o", "n", "(", ")">>
\* sampleQueries.nodes[0].query
query_nodes0 ==
    <<"M", "A", "T", "C", "H", " ", "(", "v", ":", "V", "u", "l", "n", "e", "r", "a", "b", "i",
      "l", "i", "t", "y", ")", " ", "R", "E", "T", "U", "R", "N", " ", "v", " ", "L", "I", "M",
      "I", "T", " ", "5", "0">>
\* sampleQueries.relationships[0].query
query_rel0 ==
    <<"M", "A", "T", "C", "H", " ", "(", "e", ":", "E", "x", "p", "l", "o", "i", "t", ")", "-",
      "[", "r", ":", "E", "X", "P", "L", "O", "I", "T", "S", "]", "-", ">", "(", "v", ":", "V",
      "u", "l", "n", "e", "r", "a", "b", "i", "l", "i", "t", "y", ")", " ", "R", "E", "T", "U",
      "R", "N", " ", "e", ",", " ", "r", ",", " ", "v", " ", "L", "I", "M", "I", "T", " ", "5",
      "0">>
\* a query typed into the editor, or chosen in a tool panel
query_lowerDelete ==
    <<"m", "a", "t", "c", "h", " ", "(", "n", ")", " ", "d", "e", "t", "a", "c", "h", " ", "d",
      "e", "l", "e", "t", "e", " ", "n">>

\* the character classes of JavaScript regular expressions
upperCase == <<"A", "B", "C", "D", "E", "F", "G", "H", "I", "J", "K", "L", "M",
               "N", "O", "P", "Q", "R", "S", "T", "U", "V", "W", "X", "Y", "Z">>
lowerCase == <<"a", "b", "c", "d", "e", "f", "g", "h", "i", "j", "k", "l", "m",
               "n", "o", "p", "q", "r", "s", "t", "u", "v", "w", "x", "y", "z">>
decimalDigits == <<"0", "1", "2", "3", "4", "5", "6", "7", "8", "9">>

\* \w and \d
isWordChar(c) == c \in Range(upperCase) \cup Range(lowerCase) \cup Range(decimalDigits) \cup {"_"}
isDigit(c) == c \in Range(decimalDigits)

\* String.prototype.toLowerCase, one character and a whole string
lowerChar(c) ==
    IF c \in Range(upperCase)
    THEN lowerCase[CHOOSE i \in 1..26 : upperCase[i] = c]
    ELSE c
toLowerCase(q) == [i \in 1..Len(q) |-> lowerChar(q[i])]

\* a literal of a pattern with the i flag matches q at position i
literalAt_caseSensitive(q, i, w) ==
    /\ i >= 1
    /\ i + Len(w) - 1 <= Len(q)
    /\ SubSeq(q, i, i + Len(w) - 1) = w

literalAt(q, i, w) ==
    /\ i >= 1
    /\ i + Len(w) - 1 <= Len(q)
    /\ toLowerCase(SubSeq(q, i, i + Len(w) - 1)) = toLowerCase(w)

\* \b between q[i-1] and q[i]
wordBoundary(q, i) ==
    LET before == i - 1 >= 1 /\ i - 1 <= Len(q) /\ isWordChar(q[i - 1])
        after == i >= 1 /\ i <= Len(q) /\ isWordChar(q[i])
    IN  before # after

\* \s* from position k on: the position of the first character that is no space
skipSpaces(q, k) ==
    LET isSpace(c) == c \in {" ", "\t", "\n"}
    IN  CHOOSE d \in k..(Len(q) + 1) :
            /\ \A j \in k..(d - 1) : isSpace(q[j])
            /\ d = Len(q) + 1 \/ ~isSpace(q[d])

\* \d* from position d on: the position of the last digit of the run
lastDigit(q, d) ==
    CHOOSE e \in (d - 1)..Len(q) :
        /\ \A j \in d..e : isDigit(q[j])
        /\ e = Len(q) \/ ~isDigit(q[e + 1])

\* (?!.*name): name does not occur on the rest of the line that starts at i
\* (. matches no newline)
notAhead(q, i, name) ==
    ~ \E k \in i..Len(q) :
        /\ literalAt(q, k, name)
        /\ \A j \in i..(k - 1) : q[j] # "\n"

\* App.isQuerySafe: no pattern of forbiddenPatterns matches
isQuerySafe(query) ==
    LET \* the keywords of the patterns /\bWORD\b/i
        forbiddenWords ==
            {<<"C", "R", "E", "A", "T", "E">>, <<"M", "E", "R", "G", "E">>, <<"S", "E", "T">>,
             <<"D", "E", "L", "E", "T", "E">>, <<"R", "E", "M", "O", "V", "E">>,
             <<"D", "E", "T", "A", "C", "H">>, <<"D", "R", "O", "P">>}
        \* /\bWORD\b/i.test(q)
        testWord(q, w) ==
            \E i \in 1..Len(q) :
                /\ wordBoundary(q, i)
                /\ literalAt(q, i, w)
                /\ wordBoundary(q, i + Len(w))
        \* /\bCALL\s+db\.(?!.*schema|.*labels|.*relationshipTypes|.*constraints)/i.test(q)
        testCallDb(q) ==
            \E i \in 1..Len(q) :
                /\ wordBoundary(q, i)
                /\ literalAt(q, i, <<"C", "A", "L", "L">>)
                /\ LET j == skipSpaces(q, i + 4)
                   IN  /\ j > i + 4
                       /\ literalAt(q, j, <<"d", "b", ".">>)
                       /\ notAhead(q, j + 3, <<"s", "c", "h", "e", "m", "a">>)
                       /\ notAhead(q, j + 3, <<"l", "a", "b", "e", "l", "s">>)
                       /\ notAhead(q, j + 3, <<"r", "e", "l", "a", "t", "i", "o", "n", "s",
                                               "h", "i", "p", "T", "y", "p", "e", "s">>)
                       /\ notAhead(q, j + 3, <<"c", "o", "n", "s", "t", "r", "a", "i", "n",
                                               "t", "s">>)
    IN  /\ \A w \in forbiddenWords : ~testWord(query, w)
        /\ ~ testCallDb(query)


\* parseInt of a run of decimal digits
RECURSIVE parseInt(_)
parseInt(ds) ==
    IF ds = <<>> THEN 0
    ELSE 10 * parseInt(SubSeq(ds, 1, Len(ds) - 1))
         + (CHOOSE v \in 0..9 : decimalDigits[v + 1] = ds[Len(ds)])

\* query.match(/limit\s+(\d+)/i): the leftmost match, or null
limitMatch(q) ==
    LET \* the pattern matches q from position i on
        limitMatchAt(i) ==
            /\ literalAt(q, i, <<"l", "i", "m", "i", "t">>)
            /\ LET d == skipSpaces(q, i + 5)
               IN  d > i + 5 /\ d <= Len(q) /\ isDigit(q[d])
        at == {i \in 1..Len(q) : limitMatchAt(i)}
    IN  IF at = {} THEN null
        ELSE LET i == CHOOSE a \in at : \A b \in at : a <= b
                 d == skipSpaces(q, i + 5)
             IN  [index |-> i, first |-> d, last |-> lastDigit(q, d)]

\* the visualization case up to the call of executeQuery (App.tsx 189-198):
\* the query that is sent, and the warning that is set on the way
limitQuery(query) ==
    LET \* String.prototype.includes
        includes(q, sub) ==
            \E i \in 1..(Len(q) - Len(sub) + 1) : SubSeq(q, i, i + Len(sub) - 1) = sub
    IN  IF ~includes(toLowerCase(query), <<"l", "i", "m", "i", "t">>)
        THEN [query |-> query \o <<" ", "L", "I", "M", "I", "T", " ", "2", "0", "0">>,
              warning |->
                  "Default limit is 200 nodes, or use LIMIT clause to limit your own query"]
        ELSE LET limitMatched == limitMatch(query)
             IN  IF limitMatched # null
                    /\ parseInt(SubSeq(query, limitMatched.first, limitMatched.last)) > 200
                 THEN [query |-> SubSeq(query, 1, limitMatched.index - 1)
                                 \o <<"L", "I", "M", "I", "T", " ", "2", "0", "0">>
                                 \o SubSeq(query, limitMatched.last + 1, Len(query)),
                       warning |-> "Limit your query to 200 nodes"]
                 ELSE [query |-> query, warning |-> noWarning]

\* what parseInt gives for a string that does not start with a digit
NaN == [isNaN |-> TRUE, value |-> 0]

\* the relationship types of relationshipPairs that the graphs above do not use
type_AFFECTS == <<"A", "F", "F", "E", "C", "T", "S">>
type_EXAMPLE_OF == <<"E", "X", "A", "M", "P", "L", "E", "_", "O", "F">>
type_WRITES == <<"W", "R", "I", "T", "E", "S">>

\* results of executeRawQuery for the schema query: an array of row objects,
\* the first with the fields nodes and relationships
schemaRow(labelLists, relationships) ==
    [nodes |-> [i \in 1..Len(labelLists) |-> [labels |-> labelLists[i]]],
     relationships |-> relationships]

\* the rows of the test suite's mock, one label returned twice
raw_test == <<schemaRow(<<<<label_Vulnerability>>, <<label_Exploit>>, <<label_Product>>,
                          <<label_Vendor>>, <<label_Exploit>>>>,
                        <<type_EXPLOITS, type_AFFECTS, type_BELONGS_TO>>)>>

\* no row / the mock's rows / a single label / a row without a nodes field /
\* every label of the database, one node carrying two labels and one carrying none
SchemaResults ==
    LET
        raw_none == <<>>
        raw_single == <<schemaRow(<<<<label_Vendor>>>>, <<>>)>>
        raw_noNodes == <<[relationships |-> <<type_EXPLOITS>>]>>
        raw_all == <<schemaRow(<<<<label_Author, label_Exploit>>, <<>>, <<label_Vulnerability>>,
                                 <<label_Weakness>>, <<label_Domain>>, <<label_Product>>,
                                 <<label_Vendor>>, <<label_Author>>>>, <<>>)>>
    IN  {raw_none, raw_test, raw_single, raw_noNodes, raw_all}

\* nodeLabels.add(label) for every label of a node: a Set keeps the first
\* occurrence of a value, in insertion order
RECURSIVE addLabels(_, _)
addLabels(labels, nodeLabels) ==
    IF labels = <<>> THEN nodeLabels
    ELSE addLabels(Tail(labels),
                   IF \E i \in 1..Len(nodeLabels) : nodeLabels[i] = Head(labels)
                   THEN nodeLabels
                   ELSE Append(nodeLabels, Head(labels)))

\* result[0].nodes.forEach(...): the labels of every node
RECURSIVE extractLabels(_, _)
extractLabels(nodes, nodeLabels) ==
    IF nodes = <<>> THEN nodeLabels
    ELSE extractLabels(Tail(nodes),
                       IF "labels" \in DOMAIN Head(nodes)
                       THEN addLabels(Head(nodes).labels, nodeLabels)
                       ELSE nodeLabels)

relationshipPairs ==
    <<[rel |-> type_EXPLOITS, source |-> label_Exploit, target |-> label_Vulnerability],
      [rel |-> type_BELONGS_TO, source |-> label_Product, target |-> label_Vendor],
      [rel |-> type_AFFECTS, source |-> label_Vulnerability, target |-> label_Product],
      [rel |-> type_REFERS_TO, source |-> label_Vulnerability, target |-> label_Domain],
      [rel |-> type_EXAMPLE_OF, source |-> label_Vulnerability, target |-> label_Weakness],
      [rel |-> type_WRITES, source |-> label_Author, target |-> label_Exploit]>>

\* relationshipPairs.forEach(...): a link for each pair whose two labels have a node
RECURSIVE schemaLinks_noFindCheck(_, _, _)
schemaLinks_noFindCheck(pairs, nodes, links) ==
    IF pairs = <<>> THEN links
    ELSE LET pair == Head(pairs)
         IN  schemaLinks_noFindCheck(Tail(pairs), nodes,
                 Append(links, Link(schemaMarker \o pair.source,
                                    schemaMarker \o pair.target, pair.rel)))

RECURSIVE schemaLinks(_, _, _)
schemaLinks(pairs, nodes, links) ==
    IF pairs = <<>> THEN links
    ELSE LET pair == Head(pairs)
             sources == {i \in 1..Len(nodes) : nodes[i].label = pair.source}
             targets == {i \in 1..Len(nodes) : nodes[i].label = pair.target}
         IN  schemaLinks(Tail(pairs), nodes,
                 IF sources # {} /\ targets # {}
                 THEN Append(links,
                             Link(nodes[CHOOSE i \in sources : \A j \in sources : i <= j].id,
                                  nodes[CHOOSE i \in targets : \A j \in targets : i <= j].id,
                                  pair.rel))
                 ELSE links)

\* the schemaData that the schema case builds from a result with a first row
\* (App.tsx 102-174)
schemaGraph(result) ==
    LET \* the schema node pushed for a label
        schemaNode(label) ==
            Node(schemaMarker \o label, label,
                 [schemaNodeType |-> <<"l", "a", "b", "e", "l">>, name |-> label])
        \* the position given to node i of n: radius 200 at the angle i * (2 * PI / n)
        onCircle(node, i, n) ==
            [id |-> node.id, label |-> node.label, properties |-> node.properties,
             x |-> [radius |-> 200, of |-> "cos", step |-> i, steps |-> n],
             y |-> [radius |-> 200, of |-> "sin", step |-> i, steps |-> n]]
        nodeLabels == IF "nodes" \in DOMAIN result[1]
                      THEN extractLabels(result[1].nodes, <<>>)
                      ELSE <<>>
        nodes == [i \in 1..Len(nodeLabels) |-> schemaNode(nodeLabels[i])]
    IN  IF Len(nodes) >= 2
        THEN LET placed == [i \in 1..Len(nodes) |-> onCircle(nodes[i], i - 1, Len(nodes))]
             IN  GraphData(placed, schemaLinks(relationshipPairs, placed, <<>>))
        ELSE GraphData(nodes, <<>>)

\* what CypherFrame's Run button hands to runQuery (the purpose defaults to
\* 'visualization')
EditorQueries ==
    LET
        query_noLimit ==
            <<"M", "A", "T", "C", "H", " ", "(", "n", ")", " ", "R", "E", "T", "U", "R", "N", " ", "n">>
        query_bigLimit ==
            <<"M", "A", "T", "C", "H", " ", "(", "n", ")", " ", "R", "E", "T", "U", "R", "N", " ", "n",
              " ", "l", "i", "m", "i", "t", " ", " ", "9", "9", "9">>
        query_limitProperty ==
            <<"M", "A", "T", "C", "H", " ", "(", "n", ")", " ", "R", "E", "T", "U", "R", "N", " ", "n",
              ".", "l", "i", "m", "i", "t">>
        query_twoLimits ==
            <<"M", "A", "T", "C", "H", " ", "(", "n", ")", " ", "W", "I", "T", "H", " ", "n", " ", "L",
              "I", "M", "I", "T", " ", "5", " ", "R", "E", "T", "U", "R", "N", " ", "n", " ", "L", "I",
              "M", "I", "T", " ", "9", "9", "9">>
        query_offset ==
            <<"M", "A", "T", "C", "H", " ", "(", "n", ")", " ", "R", "E", "T", "U", "R", "N", " ", "n",
              ".", "o", "f", "f", "s", "e", "t">>
        query_callLabels ==
            <<"C", "A", "L", "L", " ", "d", "b", ".", "l", "a", "b", "e", "l", "s", "(", ")">>
        query_callOther ==
            <<"C", "A", "L", "L", " ", " ", "d", "b", ".", "p", "i", "n", "g", "(", ")">>
    IN  {query_nodes0, query_noLimit, query_bigLimit, query_limitProperty,
         query_twoLimits, query_lowerDelete, query_offset,
         query_callLabels, query_callOther}

\* what the tool panels hand to onQuerySelect with a purpose: NodeDownload's
\* query for a node type and its properties, LLMIntegration's query string
PanelQueries ==
    LET
        query_set ==
            <<"M", "A", "T", "C", "H", " ", "(", "n", ")", " ", "S", "E", "T", " ", "n", ".", "a", " ",
              "=", " ", "1">>
        query_download ==
            <<"\n", "M", "A", "T", "C", "H", " ", "(", "n", ":", "V", "e", "n", "d", "o", "r", ")",
              "\n", "R", "E", "T", "U", "R", "N", " ", "C", "O", "A", "L", "E", "S", "C", "E", "(",
              "n", ".", "n", "a", "m", "e", ",", " ", "'", "'", ")", " ", "a", "s", " ", "n", "a", "m",
              "e", "\n">>
        query_llm ==
            <<"m", "o", "d", "e", "l", "=", "b", "e", "r", "t", "&", "y", "e", "a", "r", "=", "2", "0",
              "2", "1", "&", "d", "i", "m", "_", "s", "i", "z", "e", "=", "1", "6">>
        query_llmWide ==
            <<"m", "o", "d", "e", "l", "=", "b", "e", "r", "t", "&", "y", "e", "a", "r", "=", "2", "0",
              "2", "1", "&", "d", "i", "m", "_", "s", "i", "z", "e", "=", "6", "4">>
        query_llmDrop ==
            <<"m", "o", "d", "e", "l", "=", "d", "r", "o", "p", "&", "y", "e", "a", "r", "=", "2", "0",
              "2", "1", "&", "d", "i", "m", "_", "s", "i", "z", "e", "=", "1", "6">>
    IN  {<<query_download, "download">>, <<query_lowerDelete, "download">>,
         <<query_llm, "llm">>, <<query_llmWide, "llm">>, <<query_llmDrop, "llm">>,
         <<query_set, "schema">>}

\* an onQuerySelect call without its second argument
noPurpose == "<undefined>"

\* the value of a promise that has not settled / the QueryResult of an early return
pending == [pending |-> TRUE]
emptyGraphResult == [graphData |-> GraphData(<<>>, <<>>)]

\* a handleRunQuery call that awaits its service: its purpose, its local
\* dim_size, and whether a visualization query started after it has succeeded
Request(purpose, dim_size) == [purpose |-> purpose, dim_size |-> dim_size, overtaken |-> FALSE]

\* handleRunQuery up to its first await (App.tsx 86-98, 189-199, 208, 213-215):
\* the warning it leaves, the requests it adds to those waiting, the service
\* calls it makes, and what it has returned
startQuery(query, purpose) ==
    LET \* parseInt(query.split('dim_size=')[1]): a number, or NaN
        dimSize ==
            LET sep == <<"d", "i", "m", "_", "s", "i", "z", "e", "=">>
                at == {i \in 1..(Len(query) - Len(sep) + 1) :
                           SubSeq(query, i, i + Len(sep) - 1) = sep}
            IN  IF at = {} THEN NaN
                ELSE LET d == (CHOOSE i \in at : \A j \in at : i <= j) + Len(sep)
                     IN  IF d > Len(query) \/ ~isDigit(query[d]) THEN NaN
                         ELSE [isNaN |-> FALSE,
                               value |-> parseInt(SubSeq(query, d, lastDigit(query, d)))]
    IN
    IF ~isQuerySafe(query)
    THEN [warning |-> "Modification queries are not allowed for security reasons",
          requests |-> <<>>, sent |-> <<>>, result |-> emptyGraphResult]
    ELSE CASE purpose = "schema" ->
                [warning |-> noWarning,
                 requests |-> <<Request(purpose, NaN)>>,
                 sent |-> <<[service |-> "executeRawQuery", query |-> query]>>,
                 result |-> pending]
           [] purpose = "visualization" ->
                [warning |-> limitQuery(query).warning,
                 requests |-> <<Request(purpose, NaN)>>,
                 sent |-> <<[service |-> "executeQuery", query |-> limitQuery(query).query]>>,
                 result |-> pending]
           [] purpose = "download" ->
                [warning |-> noWarning,
                 requests |-> <<Request(purpose, NaN)>>,
                 sent |-> <<[service |-> "executeRawQuery", query |-> query]>>,
                 result |-> pending]
           [] purpose = "llm" ->
                [warning |-> noWarning,
                 requests |-> <<Request(purpose, dimSize)>>,
                 sent |-> <<[service |-> "fetch", query |-> query]>>,
                 result |-> pending]
           [] OTHER ->
                [warning |-> "Invalid query purpose",
                 requests |-> <<>>, sent |-> <<>>, result |-> emptyGraphResult]

\* startQuery over the calls of the model, evaluated once
Calls == (EditorQueries \X {"visualization"}) \cup PanelQueries
         \cup {<<query_schema, "schema">>}
started == [call \in Calls |-> startQuery(call[1], call[2])] @@ <<>>

\* what a service call may come back with
Responses(purpose) ==
    {[kind |-> "throws", error |-> e] : e \in {[message |-> "Neo4jError"], [message |-> ""]}}
    \cup CASE purpose = "schema" -> {[kind |-> "rows", rows |-> r] : r \in SchemaResults}
           [] purpose = "visualization" ->
                {[kind |-> "records", records |-> r] :
                    r \in {result_path, result_repeated, result_unlabelled}}
           [] purpose = "download" -> {[kind |-> "rows", rows |-> <<[name |-> <<"x">>]>>]}
           [] purpose = "llm" ->
                {[kind |-> "notOk"]}
                \cup {[kind |-> "json", embeddings |-> e] : e \in {"matrix", "rows", "missing"}}

\* the catch of the outer try (App.tsx 243-247)
outerCatch_rethrows(error, graphData) ==
    [graphData |-> graphData, warning |-> noWarning, settled |-> "rejected",
     result |-> pending, outcome |-> "failed"]

outerCatch(error, graphData) ==
    [graphData |-> graphData,
     warning |-> IF error.message # "" THEN error.message
                 ELSE "An error occurred while executing the query",
     settled |-> "resolved", result |-> emptyGraphResult, outcome |-> "failed"]


\* handleRunQuery from its await on (App.tsx 98-186, 199-205, 208-209, 215-237):
\* the graphData and the warning afterwards, how the promise settles and with
\* what, and whether the call did what it was asked ("ok"), met a failing
\* service ("failed") or met data that it does not accept ("invalid")
handleResponse(request, response, graphData, warn) ==
    LET resolved(g, w, result, outcome) ==
            [graphData |-> g, warning |-> w, settled |-> "resolved",
             result |-> result, outcome |-> outcome]
    IN  CASE request.purpose = "schema" ->
                IF response.kind = "throws"
                THEN resolved(graphData, "Error processing schema visualization",
                              emptyGraphResult, "failed")
                ELSE IF Len(response.rows) > 0
                THEN LET schemaData == schemaGraph(response.rows)
                     IN  resolved(schemaData, warn, [graphData |-> schemaData], "ok")
                ELSE resolved(graphData,
                              "Schema visualization did not return expected data format",
                              emptyGraphResult, "invalid")
          [] request.purpose = "visualization" ->
                IF response.kind = "throws"
                THEN outerCatch(response.error, graphData)
                ELSE LET visualData == executeQuery(response.records)
                     IN  IF ~isValidGraphData(visualData)
                         THEN resolved(graphData,
                                       "Query did not return valid graph data and was ignored.",
                                       emptyGraphResult, "invalid")
                         ELSE resolved(visualData, warn, [graphData |-> visualData], "ok")
          [] request.purpose = "download" ->
                IF response.kind = "throws"
                THEN outerCatch(response.error, graphData)
                ELSE resolved(graphData, warn, [downloadData |-> response.rows], "ok")
          [] request.purpose = "llm" ->
                IF response.kind = "throws"
                THEN outerCatch(response.error, graphData)
                ELSE IF response.kind = "notOk"
                THEN resolved(graphData, "Failed to fetch LLM embeddings",
                              [llmData |-> undefined], "failed")
                ELSE IF ~request.dim_size.isNaN /\ request.dim_size.value < 32
                THEN IF response.embeddings = "missing"
                     THEN outerCatch([message |-> "TypeError"], graphData)
                     ELSE resolved(graphData, warn,
                                   [llmData |-> [embeddings |-> "reduced",
                                                 nComponents |-> request.dim_size.value]],
                                   "ok")
                ELSE resolved(graphData, warn,
                              [llmData |-> [embeddings |-> response.embeddings]], "ok")

\* SampleVisualization: the buttons and their queries (three of the fourteen)
SampleButtons == {"schema", "rel_0", "node_0"}

\* SampleVisualization.handleClick: the onQuerySelect calls that it makes
\* (clickedButton, which it sets for 300 ms, only styles the button)
handleClick_neverPurpose(query, buttonId) ==
    <<[query |-> query, purpose |-> noPurpose]>>

handleClick(query, buttonId) ==
    IF buttonId = "schema"
    THEN <<[query |-> query, purpose |-> "schema"]>>
    ELSE <<[query |-> query, purpose |-> noPurpose]>>

\* the onQuerySelect that App hands to ToolsPanel (App.tsx 336-344), applied to
\* App's state app = [selectedQuery, warning, inflight, sent]
onQuerySelect(call, app) ==
    IF call.purpose = noPurpose
    THEN [app EXCEPT !.selectedQuery = call.query]
    ELSE LET run == started[<<call.query, call.purpose>>]
         IN  [selectedQuery |-> app.selectedQuery, warning |-> run.warning,
              inflight |-> app.inflight \o run.requests, sent |-> app.sent \o run.sent]

RECURSIVE deliver(_, _)
deliver(made, app) ==
    IF made = <<>> THEN app ELSE deliver(Tail(made), onQuerySelect(Head(made), app))

\* ToolsPanel: the tabs, and the panels that its JSX renders
Tabs == {"samples", "subgraph", "llm", "nodeDownload", "relDownload"}
displayedPanels_samplesAlways(tab, collapsed) ==
    IF collapsed THEN {} ELSE {t \in Tabs : tab = t} \cup {"samples"}

displayedPanels(tab, collapsed) ==
    IF collapsed THEN {} ELSE {t \in Tabs : tab = t}


\* ------------------------------------------------- App: the actions
\* the GraphVisualization component and its renderer stay as first rendered;
\* their reaction to a new data prop is the subject of Spec and SpecRender
componentVars == <<mounted, containerWidth, containerHeight, selectedNode, nodeRelSize, forces,
                   notified, emitted, event, hasResizeObserver, listeners, crashed, renderVars>>

\* App as first rendered: graphData {nodes: [], links: []}, no warning
AppInit ==
    /\ mounted = FALSE
    /\ data = GraphData(<<>>, <<>>)
    /\ containerWidth = 0
    /\ containerHeight = 500
    /\ selectedNode = null
    /\ nodeRelSize = nodeRadius(0)
    /\ forces = null
    /\ notified = null
    /\ emitted = <<>>
    /\ event = [kind |-> "none"]
    /\ hasResizeObserver = TRUE
    /\ listeners = noListeners
    /\ crashed = FALSE
    /\ warning = noWarning
    /\ ctx = constantMeasure
    /\ renderIdle
    /\ appIdle
    /\ toolsIdle

\* handleRunQuery(query, purpose) is called: by CypherFrame's Run button, or by
\* a tool panel through onQuerySelect
RunQuery(query, purpose) ==
    /\ LET run == started[<<query, purpose>>]
       IN  /\ Len(inflight) + Len(run.requests) <= MaxInFlight
           /\ warning' = run.warning
           /\ inflight' = inflight \o run.requests
           /\ appEvent' = [kind |-> "run", purpose |-> purpose, query |-> query,
                           sent |-> run.sent, result |-> run.result, before |-> data]
    /\ UNCHANGED <<data, selectedQuery, latest, toolVars, componentVars>>

\* a button of the sample panel is clicked
SampleClick(buttonId) ==
    /\ activeTab = "samples"
    /\ ~isCollapsed
    /\ LET sampleQuery == CASE buttonId = "schema" -> query_schema
                             [] buttonId = "rel_0" -> query_rel0
                             [] buttonId = "node_0" -> query_nodes0
           made == handleClick(sampleQuery, buttonId)
           app == deliver(made,
                          [selectedQuery |-> selectedQuery, warning |-> warning,
                           inflight |-> inflight, sent |-> <<>>])
       IN  /\ Len(app.inflight) <= MaxInFlight
           /\ selectedQuery' = app.selectedQuery
           /\ warning' = app.warning
           /\ inflight' = app.inflight
           /\ appEvent' = [kind |-> "sample", button |-> buttonId, calls |-> made,
                           sent |-> app.sent, before |-> data]
    /\ UNCHANGED <<data, latest, activeTab, isCollapsed, lastClicked, componentVars>>

\* the service call that the i-th waiting handleRunQuery awaits comes back
Settle(i, response) ==
    /\ i \in 1..Len(inflight)
    /\ response \in Responses(inflight[i].purpose)
    /\ LET request == inflight[i]
           done == handleResponse(request, response, data, warning)
           shows == request.purpose = "visualization" /\ done.outcome = "ok"
       IN  /\ data' = done.graphData
           /\ warning' = done.warning
           /\ inflight' = [j \in 1..(Len(inflight) - 1) |->
                              IF j < i
                              THEN [inflight[j] EXCEPT !.overtaken =
                                        @ \/ (shows /\ inflight[j].purpose = "visualization")]
                              ELSE inflight[j + 1]]
           /\ latest' = IF shows /\ ~request.overtaken THEN done.graphData ELSE latest
           /\ appEvent' = [kind |-> "settled", purpose |-> request.purpose,
                           outcome |-> done.outcome, settled |-> done.settled,
                           response |-> response, result |-> done.result,
                           before |-> data]
    /\ UNCHANGED <<selectedQuery, toolVars, componentVars>>

AppNext ==
    \/ \E query \in EditorQueries : RunQuery(query, "visualization")
    \/ \E call \in PanelQueries : RunQuery(call[1], call[2])
    \/ \E buttonId \in SampleButtons : SampleClick(buttonId)
    \/ \E i \in 1..Len(inflight) : \E response \in Responses(inflight[i].purpose) :
           Settle(i, response)

SpecApp == AppInit /\ [][AppNext]_vars

\* ------------------------------------------------- ToolsPanel: the actions
\* a tab button is clicked
ClickTab(tab) ==
    /\ ~isCollapsed
    /\ activeTab' = tab
    /\ lastClicked' = tab
    /\ UNCHANGED <<isCollapsed, data, warning, appVars, componentVars>>

\* the collapse toggle of the panel: the tabs and the panel are rendered
\* only while the panel is expanded
ToggleCollapsed ==
    /\ isCollapsed' = ~isCollapsed
    /\ UNCHANGED <<activeTab, lastClicked, data, warning, appVars, componentVars>>

ToolsNext ==
    \/ \E tab \in Tabs : ClickTab(tab)
    \/ ToggleCollapsed
    \/ \E buttonId \in SampleButtons : SampleClick(buttonId)

SpecTools == AppInit /\ [][ToolsNext]_vars

\* ---------------------------------------------------------------- properties

\* C1: a click on a node whose id starts with "schema_" changes neither the
\* selection nor the node last notified, and makes no onNodeClick call.
C1_SchemaClickIsNoOp ==
    [][(event'.kind = "click" /\ startsWith(event'.node.id, schemaMarker))
         => (selectedNode' = selectedNode /\ notified' = notified /\ emitted' = <<>>)]_vars

\* a schema node was clicked while a node was selected
C1_Witness ==
    /\ event.kind = "click"
    /\ startsWith(event.node.id, schemaMarker)
    /\ event.before # null
    /\ selectedNode = event.before

\* C2: a click on the node that is currently selected leaves no node selected
\* and makes no onNodeClick call.
C2_ClickSelectedCloses ==
    (event.kind = "click" /\ event.before # null /\ event.before.id = event.node.id)
        => (selectedNode = null /\ emitted = <<>>)

\* the selected node was clicked again
C2_Witness ==
    /\ event.kind = "click"
    /\ event.before # null
    /\ event.before.id = event.node.id
    /\ selectedNode = null

\* C3: a click on a regular node that is not the selected one makes it the
\* selected node, replacing any previous selection, and calls onNodeClick
\* exactly once with the clicked node's data.
C3_ClickOtherSelectsAndNotifies ==
    (/\ event.kind = "click"
     /\ ~startsWith(event.node.id, schemaMarker)
     /\ (event.before = null \/ event.before.id # event.node.id))
        => (/\ selectedNode = event.node
            /\ emitted = <<event.node>>
            /\ notified = event.node)

\* a regular node was clicked while another node was selected
C3_Witness ==
    /\ event.kind = "click"
    /\ ~startsWith(event.node.id, schemaMarker)
    /\ event.before # null
    /\ event.before.id # event.node.id
    /\ selectedNode = event.node

\* C4: after the close button of the detail panel is pressed no node is selected.
C4_DismissClears ==
    event.kind = "dismiss" => selectedNode = null

\* the panel of a selected node was closed
C4_Witness ==
    /\ event.kind = "dismiss"
    /\ event.before # null
    /\ selectedNode = null

\* C5: immediately after a new GraphData value arrives no node is selected.
C5_ReplaceDataClearsSelection ==
    event.kind = "data" => selectedNode = null

\* C6: a selected node is one of the nodes of the current GraphData.
C6_SelectionInCurrentData ==
    selectedNode # null => selectedNode \in Range(data.nodes)

\* C7: once mounted, the link distance in effect for a link with label s is at
\* least max(6 * len(s) * 2, 60).
C7_LinkDistanceFitsLabel ==
    mounted => \A link \in Range(data.links) :
                  LET s == IF "type" \in DOMAIN link THEN link.type ELSE <<>>
                      needed == IF 6 * Len(s) * 2 >= 60 THEN 6 * Len(s) * 2 ELSE 60
                  IN  linkDistance(forces, link) >= needed

\* C8: once mounted, the collision force in effect has radius nodeRadius * k
\* with 1.5 <= k <= 1.8 and a strength strictly below 1.0.
C8_CollisionSoftAndPadded ==
    mounted => /\ forces.collide.radius >= 15 * nodeRelSize
               /\ forces.collide.radius <= 18 * nodeRelSize
               /\ forces.collide.strength < 100

\* C9: once mounted, the force parameters in effect are those that the
\* recomputation on a data change yields for the current nodeRadius, whether
\* the last event was a data replacement or a resize.
C9_ResizeAppliesSameForces ==
    mounted => forces = forceConfigurationEffect(forces, nodeRelSize)

\* C10: nodeRadius is max(width / 50, 10) for every container width, and so
\* never below 10.
C10_NodeRadiusClamped ==
    /\ nodeRelSize = (IF containerWidth > 10 * 50 THEN containerWidth ELSE 10 * 50)
    /\ nodeRelSize >= 10 * 50

\* a container wider than 500 was measured
C10_Witness ==
    /\ mounted
    /\ containerWidth > 10 * 50
    /\ nodeRelSize = containerWidth

\* C11: the text that renderNode draws for a regular node measures at most
\* nodeRadius * 1.6.
C11_DrawnTextFits ==
    (rpc = "done" /\ pass = 1 /\ ~startsWith(rNode.id, schemaMarker))
        => measureText(ctx, displayText, nodeRelSize) <= 48 * nodeRelSize

\* C11, amended: the text drawn measures at most nodeRadius * 1.6, or it is the
\* bare ellipsis.
C11_DrawnTextFitsOrEllipsis ==
    (rpc = "done" /\ pass = 1 /\ ~startsWith(rNode.id, schemaMarker))
        => \/ measureText(ctx, displayText, nodeRelSize) <= 48 * nodeRelSize
           \/ displayText = <<".", ".", ".">>

\* a text too wide was cut to some of its letters and the ellipsis, and fits
C11_Witness ==
    /\ rpc = "done"
    /\ pass = 1
    /\ ~startsWith(rNode.id, schemaMarker)
    /\ measureText(ctx, nodeId, nodeRelSize) > 48 * nodeRelSize
    /\ Len(displayText) > 3
    /\ measureText(ctx, displayText, nodeRelSize) <= 48 * nodeRelSize

\* C12: fitting a text that the fit has produced, with the same nodeRadius and
\* measure, yields that text again.
C12_FitIdempotent ==
    (rpc = "done" /\ pass = 2) => displayText = firstText

\* a truncated text was fitted a second time
C12_Witness ==
    /\ rpc = "done"
    /\ pass = 2
    /\ firstText # getNodeId(rNode)
    /\ displayText = firstText

\* C13: the truncation loop ends for every text and measure; the candidate
\* gets shorter with each iteration.
C13_LoopTerminates ==
    /\ [][(rpc = "loop" /\ rpc' = "loop") => Len(truncated') < Len(truncated)]_vars
    /\ (rpc = "loop") ~> (rpc \in {"done", "thrown"})

\* the loop cut a text down to the empty candidate and stopped there
C13_Witness ==
    /\ rpc = "done"
    /\ pass = 1
    /\ nodeId # <<>>
    /\ truncated = <<>>
    /\ displayText = <<".", ".", ".">>

\* C14: every link handed to ForceGraph2D has its source and its target among
\* the ids of the current nodes.
C14_NoDanglingLinks ==
    mounted => \A link \in Range(data.links) :
                  /\ \E n \in Range(data.nodes) : n.id = link.source
                  /\ \E n \in Range(data.nodes) : n.id = link.target

\* the identifying property of each known label
identifyingProperty ==
    (label_Vulnerability :> "cveID") @@ (label_Exploit :> "eid") @@
    (label_Weakness :> "cweID") @@ (label_Product :> "productName") @@
    (label_Vendor :> "vendorName") @@ (label_Author :> "authorName") @@
    (label_Domain :> "domainName")

\* C15: for a regular node of a known label without its identifying property,
\* the display text is the placeholder and renderNode does not throw.
C15_MissingPropertyPlaceholder ==
    (/\ rNode # null
     /\ pass = 1
     /\ ~startsWith(rNode.id, schemaMarker)
     /\ rNode.label \in DOMAIN identifyingProperty
     /\ identifyingProperty[rNode.label] \notin DOMAIN rNode.properties)
        => (rpc # "thrown" /\ nodeId = <<"U", "n", "k", "n", "o", "w", "n">>)

\* C16: the display text of a regular node of an unknown label is "Unknown",
\* and the display text of a schema node is its label.
C16_UnknownAndSchemaText ==
    (rNode # null /\ pass = 1)
        => /\ startsWith(rNode.id, schemaMarker) => nodeId = rNode.label
           /\ (~startsWith(rNode.id, schemaMarker) /\ rNode.label \notin DOMAIN identifyingProperty)
                 => nodeId = <<"U", "n", "k", "n", "o", "w", "n">>

\* a schema node was drawn with its label
C16_Witness ==
    /\ rpc = "done"
    /\ rNode # null
    /\ startsWith(rNode.id, schemaMarker)
    /\ displayText = rNode.label

\* C17: renderNode and renderLinkLabel leave the nodes and links of the data
\* as they were.
C17_RenderKeepsData ==
    [][data' = data]_vars

\* a node whose text had to be cut was drawn
C17_Witness ==
    /\ rpc = "done"
    /\ pass = 1
    /\ rNode \in Range(data.nodes)
    /\ displayText # nodeId

\* C18: once the component is gone neither the window listener nor the
\* ResizeObserver is registered.
C18_TeardownDeregisters ==
    ~mounted => (~listeners.window /\ ~listeners.observer)

\* C19: without ResizeObserver mounting does not crash, and the component
\* tracks its size through the window listener alone.
C19_MountWithoutObserver ==
    ~hasResizeObserver
        => /\ ~crashed
           /\ mounted => (listeners.window /\ ~listeners.observer)

\* C22: while the data is the empty GraphData, the component has rendered
\* without an error and the last event made no onNodeClick call.
C22_EmptyDataQuiet ==
    data = GraphData(<<>>, <<>>) => (~crashed /\ emitted = <<>>)

\* C23: the graph on display, and every graph that handleRunQuery resolves
\* with, has no two nodes with the same id.
C23_NodeIdsUnique ==
    LET unique(nodes) == \A i, j \in 1..Len(nodes) : nodes[i].id = nodes[j].id => i = j
    IN  /\ unique(data.nodes)
        /\ (appEvent.kind = "settled" /\ "graphData" \in DOMAIN appEvent.result)
               => unique(appEvent.result.graphData.nodes)

\* a visualization query whose records return one node twice has put its
\* graph on display
C23_Witness ==
    /\ appEvent.kind = "settled"
    /\ appEvent.purpose = "visualization"
    /\ appEvent.response.kind = "records"
    /\ appEvent.response.records = result_repeated
    /\ Len(data.nodes) = 2

\* the labels that the nodes of the first row of a schema result carry
labelsOf(rows) ==
    IF "nodes" \in DOMAIN rows[1]
    THEN UNION {Range(rows[1].nodes[i].labels) : i \in 1..Len(rows[1].nodes)}
    ELSE {}

\* C24: once a schema query has come back with at least one row, the graph on
\* display has exactly one node per distinct label of the row, with the id
\* "schema_" + label and properties.schemaNodeType = 'label', and every link
\* has one of the six known types and ends that are ids of nodes of the graph.
C24_SchemaGraphWellFormed ==
    (/\ appEvent.kind = "settled"
     /\ appEvent.purpose = "schema"
     /\ appEvent.response.kind = "rows"
     /\ Len(appEvent.response.rows) > 0)
        => /\ {data.nodes[i].label : i \in 1..Len(data.nodes)} = labelsOf(appEvent.response.rows)
           /\ Len(data.nodes) = Cardinality(labelsOf(appEvent.response.rows))
           /\ \A i \in 1..Len(data.nodes) :
                  /\ data.nodes[i].id = <<"s", "c", "h", "e", "m", "a", "_">> \o data.nodes[i].label
                  /\ data.nodes[i].properties.schemaNodeType = <<"l", "a", "b", "e", "l">>
           /\ \A k \in 1..Len(data.links) :
                  /\ data.links[k].type \in {type_EXPLOITS, type_BELONGS_TO, type_AFFECTS,
                                             type_REFERS_TO, type_EXAMPLE_OF, type_WRITES}
                  /\ \E i \in 1..Len(data.nodes) : data.nodes[i].id = data.links[k].source
                  /\ \E i \in 1..Len(data.nodes) : data.nodes[i].id = data.links[k].target

\* the schema result of the test suite, which lacks the labels of three of
\* the known relationships, has been turned into a graph with links
C24_Witness ==
    /\ appEvent.kind = "settled"
    /\ appEvent.purpose = "schema"
    /\ appEvent.response.kind = "rows"
    /\ appEvent.response.rows = raw_test
    /\ Len(data.nodes) = 4
    /\ Len(data.links) = 3

\* C25: a click on the schema button makes the single call
\* onQuerySelect('CALL db.schema.visualization()', 'schema'); a click on a
\* node-type or relationship button makes the single call onQuerySelect(query)
\* without a purpose, after which the editor holds the query, no service was
\* called, no request was added and graphData and the warning are as before.
C25_SampleButtons ==
    [][appEvent'.kind = "sample"
         => /\ Len(appEvent'.calls) = 1
            /\ appEvent'.button = "schema"
                   => appEvent'.calls[1] = [query |-> query_schema, purpose |-> "schema"]
            /\ appEvent'.button # "schema"
                   => /\ appEvent'.calls[1].query
                            = (IF appEvent'.button = "rel_0" THEN query_rel0 ELSE query_nodes0)
                      /\ appEvent'.calls[1].purpose = "<undefined>"
                      /\ selectedQuery' = appEvent'.calls[1].query
                      /\ appEvent'.sent = <<>>
                      /\ inflight' = inflight
                      /\ data' = data
                      /\ warning' = warning]_vars

\* a relationship button was clicked while a graph and a warning were on display
C25_Witness ==
    /\ appEvent.kind = "sample"
    /\ appEvent.button = "rel_0"
    /\ selectedQuery = query_rel0
    /\ Len(data.nodes) > 0
    /\ warning # ""

\* C26: while the panel is expanded exactly one tool panel is displayed: the
\* panel of the tab clicked last, and the sample panel before any tab click.
C26_OnePanelOfLastTab ==
    ~isCollapsed
        => displayedPanels(activeTab, isCollapsed)
               = {IF lastClicked = "<none>" THEN "samples" ELSE lastClicked}

\* a tab other than the first has been clicked
C26_Witness ==
    /\ lastClicked = "relDownload"
    /\ ~isCollapsed
    /\ displayedPanels(activeTab, isCollapsed) = {"relDownload"}


\* keyword w stands in q at position i as a whole word, in any case
keywordAt(q, i, w) ==
    /\ i + Len(w) - 1 <= Len(q)
    /\ \A k \in 1..Len(w) : lowerChar(q[i + k - 1]) = lowerChar(w[k])
    /\ i = 1 \/ ~isWordChar(q[i - 1])
    /\ i + Len(w) > Len(q) \/ ~isWordChar(q[i + Len(w)])

\* the queries of the model that contain one of the seven modifying keywords
modifying ==
    [call \in Calls |->
        \E w \in {<<"C", "R", "E", "A", "T", "E">>, <<"M", "E", "R", "G", "E">>,
                  <<"S", "E", "T">>, <<"D", "E", "L", "E", "T", "E">>,
                  <<"R", "E", "M", "O", "V", "E">>, <<"D", "E", "T", "A", "C", "H">>,
                  <<"D", "R", "O", "P">>} :
            \E i \in 1..Len(call[1]) : keywordAt(call[1], i, w)] @@ <<>>

\* C27: a handleRunQuery call whose query contains CREATE, MERGE, SET, DELETE,
\* REMOVE, DETACH or DROP as a whole word, in any case and for any purpose,
\* calls no service, sets the warning, has returned the empty graph result and
\* leaves graphData as it was.
C27_ModifyingQueryNotSent ==
    (appEvent.kind = "run" /\ modifying[<<appEvent.query, appEvent.purpose>>])
        => /\ appEvent.sent = <<>>
           /\ warning = "Modification queries are not allowed for security reasons"
           /\ appEvent.result = [graphData |-> GraphData(<<>>, <<>>)]
           /\ data = appEvent.before

\* a lower-case delete was handed in for download while a graph was on display
C27_Witness ==
    /\ appEvent.kind = "run"
    /\ appEvent.purpose = "download"
    /\ appEvent.query = query_lowerDelete
    /\ Len(data.nodes) > 0

\* the queries that the calls of the model send, each with the numbers of
\* its LIMIT clauses
sentLimits ==
    LET limits(q) ==
            {parseInt(SubSeq(q, skipSpaces(q, i + 5), lastDigit(q, skipSpaces(q, i + 5)))) :
                i \in {j \in 1..Len(q) :
                          /\ keywordAt(q, j, <<"L", "I", "M", "I", "T">>)
                          /\ skipSpaces(q, j + 5) > j + 5
                          /\ skipSpaces(q, j + 5) <= Len(q)
                          /\ isDigit(q[skipSpaces(q, j + 5)])}}
    IN
    [q \in {started[call].sent[1].query : call \in {c \in Calls : started[c].sent # <<>>}}
        |-> limits(q)] @@ <<>>

\* C28: every query that a visualization call hands to executeQuery has a
\* LIMIT clause, and none with a number above 200.
C28_SentQueryLimited ==
    (appEvent.kind = "run" /\ appEvent.purpose = "visualization")
        => \A k \in 1..Len(appEvent.sent) :
               appEvent.sent[k].service = "executeQuery"
                   => /\ sentLimits[appEvent.sent[k].query] # {}
                      /\ \A n \in sentLimits[appEvent.sent[k].query] : n <= 200

\* the service call of a request failed, or came back with what
\* handleRunQuery does not accept
failing(purpose, response) ==
    \/ response.kind \in {"throws", "notOk"}
    \/ /\ purpose = "visualization"
       /\ response.kind = "records"
       /\ LET g == executeQuery(response.records)
          IN  \/ \E i \in 1..Len(g.nodes) : g.nodes[i].id \in {undefined, <<>>}
                                             \/ g.nodes[i].label \in {undefined, <<>>}
              \/ \E i \in 1..Len(g.links) : g.links[i].source \in {undefined, <<>>}
                                             \/ g.links[i].target \in {undefined, <<>>}
    \/ /\ purpose = "schema"
       /\ response.kind = "rows"
       /\ response.rows = <<>>

\* C29: every handleRunQuery call resolves; when its service call failed or
\* returned data that is not accepted, a warning is set and graphData is as
\* it was.
C29_FailureResolvesWithWarning ==
    appEvent.kind = "settled"
        => /\ appEvent.settled = "resolved"
           /\ failing(appEvent.purpose, appEvent.response)
                  => (warning # "" /\ data = appEvent.before)

\* the backend failed with an error without a message while a graph was on display
C29_Witness ==
    /\ appEvent.kind = "settled"
    /\ appEvent.purpose = "llm"
    /\ appEvent.response = [kind |-> "throws", error |-> [message |-> ""]]
    /\ Len(data.nodes) > 0

\* C30: when a visualization query succeeds, the graph on display is the
\* result of the latest-started visualization query that has succeeded.
C30_LastStartedWins ==
    (/\ appEvent.kind = "settled"
     /\ appEvent.purpose = "visualization"
     /\ appEvent.outcome = "ok")
        => data = latest

====
